---- MODULE Spec2Model ----
(***************************************************************************)
(* BirthdayBot (src/src/main.rs): the birthday store kept in the file      *)
(* birthdays.json, the commands that read and rewrite it, and the          *)
(* announcement task check_for_announcements that sweeps it every hour.    *)
(*                                                                         *)
(* The commands run as concurrent tasks of a multi-threaded runtime.  A    *)
(* task takes FILE_LOCK inside read_from_file and inside write_to_file     *)
(* only; the sweep reads through read_from_file, takes and at once drops   *)
(* the lock (let _ = ...), and writes the file back itself.                *)
(***************************************************************************)
EXTENDS Integers, Sequences, FiniteSets, Bags, TLC

\* ------------------------------------------------------------------ bounds

\* Commands issued over a run.
MaxCmds == 2
\* Times the UTC date moves on over a run.
MaxAdvance == 1
\* The largest day and the largest month a date function is applied to.
MaxDayArg == 32
MaxMonthArg == 13
\* The largest utc_offset, either way, the date shift is applied to.
MaxOffsetArg == 26

\* An Option: None, or Some(x); Get is unwrap on a Some.
None == {}
Some(x) == {x}
Get(o) == CHOOSE x \in o : TRUE

\* The placeholder year of a birthday given without a year.
PlaceholderYear == 2024

\* A usize of 64 bits, in two halves: the value is hi * 2^32 + lo, with
\* 0 <= lo < 2^32.
USize(hi, lo) == [hi |-> hi, lo |-> lo]

MaxI32 == 2147483647

\* n as u32: the low 32 bits.
AsU32(n) == n.lo

\* n as i32: the low 32 bits, read as a signed number.
AsI32(n) == IF n.lo <= MaxI32 THEN n.lo ELSE ((n.lo - MaxI32) - MaxI32) - 2

Tasks == {1, 2}
Users == {"u1", "u2"}
Guilds == {"g1", "g2"}
Channels == {"c1"}

\* ---------------------------------------------------------------- calendar

IsLeap(y) == (y % 4 = 0 /\ y % 100 # 0) \/ y % 400 = 0

DaysInMonth(y, m) ==
    IF m = 2 THEN (IF IsLeap(y) THEN 29 ELSE 28)
    ELSE IF m \in {4, 6, 9, 11} THEN 30 ELSE 31

MkDate(y, m, d) == [year |-> y, month |-> m, day |-> d]

\* The years a NaiveDate can hold.
MinYear == -262143
MaxYear == 262142

\* NaiveDate::from_ymd_opt: the date, or None when it is not a calendar date.
from_ymd_opt(y, m, d) ==
    IF /\ y >= MinYear /\ y <= MaxYear
       /\ m >= 1 /\ m <= 12 /\ d >= 1 /\ d <= DaysInMonth(y, m)
    THEN Some(MkDate(y, m, d))
    ELSE None

PredDay(dt) ==
    IF dt.day > 1 THEN MkDate(dt.year, dt.month, dt.day - 1)
    ELSE IF dt.month > 1
         THEN MkDate(dt.year, dt.month - 1, DaysInMonth(dt.year, dt.month - 1))
         ELSE MkDate(dt.year - 1, 12, 31)

SuccDay(dt) ==
    IF dt.day < DaysInMonth(dt.year, dt.month)
    THEN MkDate(dt.year, dt.month, dt.day + 1)
    ELSE IF dt.month < 12 THEN MkDate(dt.year, dt.month + 1, 1)
         ELSE MkDate(dt.year + 1, 1, 1)

RECURSIVE ShiftDays(_, _)
\* The date n days after dt (before it, for n < 0).
ShiftDays(dt, n) ==
    IF n = 0 THEN dt
    ELSE IF n > 0 THEN ShiftDays(SuccDay(dt), n - 1)
         ELSE ShiftDays(PredDay(dt), n + 1)

\* Integer division rounding towards zero.
TruncDiv(a, b) == IF a >= 0 THEN a \div b ELSE -((-a) \div b)

\* NaiveDate - Duration::hours(h): a date moves by whole days only, the
\* duration's days counted towards zero.
DateMinusHours(dt, h) == ShiftDays(dt, -TruncDiv(h, 24))

\* args_to_date with a placeholder year that is no leap year.
args_to_date_2023(day, month, year) ==
    from_ymd_opt(IF year = None THEN 2023 ELSE AsI32(Get(year)),
                 AsU32(month), AsU32(day))

\* args_to_date: the date of (day, month, year?), each narrowed to 32 bits,
\* the year 2024 standing in for an absent one; None is Err("Invalid date!").
\* set_birthday makes the same test before it calls append_birthday.
args_to_date(day, month, year) ==
    from_ymd_opt(IF year = None THEN PlaceholderYear ELSE AsI32(Get(year)),
                 AsU32(month), AsU32(day))

\* a < b, for dates.
DateLess(a, b) ==
    \/ a.year < b.year
    \/ a.year = b.year /\ a.month < b.month
    \/ a.year = b.year /\ a.month = b.month /\ a.day < b.day

\* get_birthday's next birthday of an entry's date, seen from today: the day
\* in today's year, or in the next year when that day is past.  None is a
\* panic: the unwrap of line 189 or of line 202 on a date that does not
\* exist.
next_birthday(date, today) ==
    LET this == from_ymd_opt(today.year, date.month, date.day)
    IN  IF this = None THEN None
        ELSE from_ymd_opt(IF DateLess(Get(this), today)
                          THEN today.year + 1 ELSE today.year,
                          date.month, date.day)

\* The years of life time_left adds to the year of birth.
LIFE_EXPECTANCY == 83

\* time_left on the entry it found: "no_year" is the answer "User has not
\* set year", "expected" the answer with the expected date, "panic" the
\* unwrap of line 264 on a date that does not exist.
time_left(date) ==
    IF date.year = 2024 THEN "no_year"
    ELSE IF from_ymd_opt(date.year + LIFE_EXPECTANCY, date.month, date.day) = None
         THEN "panic" ELSE "expected"

\* ------------------------------------------------------------------- store

\* BirthdayList::default().
EmptyList == [entries |-> <<>>, server_channels |-> [g \in Guilds |-> None]]

MkEntry(u, g, name, date, off) ==
    [user_id |-> u, guild_id |-> g, name |-> name, date |-> date,
     last_announcement |-> None, utc_offset |-> off]

\* What birthdays.json (or its backup) holds: no file at all, bytes that are
\* not UTF-8, text that is no BirthdayList document, a file cut to length 0
\* by a write in progress, a document overwritten in part, or a document.
MkFile(kind) == [kind |-> kind, list |-> EmptyList]

\* serde_json::to_string_pretty of a BirthdayList.
Serialize(list) == [kind |-> "doc", list |-> list]

\* serde_json::from_str(..).unwrap_or_default() on the text read.
Deserialize(f) == IF f.kind = "doc" THEN f.list ELSE EmptyList

\* std::fs::read_to_string fails on a missing file and on non-UTF-8 bytes.
ReadFails(f) == f.kind \in {"missing", "nonutf8"}

\* std::fs::copy(FILE_PATH, backup_path), its error ignored.
CopyToBackup(f, b) == IF f.kind = "missing" THEN b ELSE f

\* The entries of a list as a set of indices.
Idx(list) == 1 .. Len(list.entries)

\* ---------------------------------------------------------------- commands

\* What set_birthday may be given: name, day, month, year?, utc_offset.
Inputs ==
    { [name |-> "n1", day |-> USize(0, 15), month |-> USize(0, 6),
       year |-> None, utc_offset |-> 0],
      [name |-> "n2", day |-> USize(0, 16), month |-> USize(0, 6),
       year |-> Some(USize(0, 1990)), utc_offset |-> 24],
      [name |-> "n1", day |-> USize(0, 30), month |-> USize(0, 2),
       year |-> None, utc_offset |-> 0] }

\* More of what set_birthday may be given: day 0, month 13, the 31st of
\* April, the 29th of February of 2023, and the day 2^32 + 15 of June.
MoreInputs ==
    { [name |-> "n1", day |-> d[1], month |-> USize(0, d[2]),
       year |-> d[3], utc_offset |-> 0] :
         d \in { <<USize(0, 0), 6, None>>, <<USize(0, 15), 13, None>>,
                 <<USize(0, 31), 4, None>>,
                 <<USize(0, 29), 2, Some(USize(0, 2023))>>,
                 <<USize(1, 15), 6, None>> } }

\* The pairs a command names.
Pairs == { <<"u1", "g1">>, <<"u2", "g1">>, <<"u1", "g2">> }

\* Retain with its test turned around: the entries of the pair are the ones
\* kept.
RetainInverted(list, u, g) ==
    SelectSeq(list.entries, LAMBDA e : e.user_id = u /\ e.guild_id = g)

\* Retain with "and" for "or": it drops every entry of the user and every
\* entry of the guild.
RetainAnd(list, u, g) ==
    SelectSeq(list.entries, LAMBDA e : e.user_id # u /\ e.guild_id # g)

Retain(list, u, g) ==
    SelectSeq(list.entries, LAMBDA e : e.user_id # u \/ e.guild_id # g)

\* append_birthday between its read and its write, for a valid date: every
\* entry of the pair removed, the new one pushed with no last_announcement.
Upsert(list, u, g, a) ==
    [list EXCEPT !.entries =
        Append(Retain(list, u, g),
               MkEntry(u, g, a.name, Get(args_to_date(a.day, a.month, a.year)),
                       a.utc_offset))]

\* set_announcement_channel between its read and its write.
SetChannel(list, g, c) ==
    [list EXCEPT !.server_channels = [@ EXCEPT ![g] = Some(c)]]

\* get_birthday_from_file: the first entry of the pair, or None.
Find(list, u, g) ==
    LET hits == { i \in Idx(list) : list.entries[i].user_id = u
                                    /\ list.entries[i].guild_id = g }
    IN  IF hits = {} THEN None
        ELSE Some(list.entries[CHOOSE i \in hits : \A j \in hits : i <= j])

\* ------------------------------------------------------------------- state

VARIABLES
    file,       \* birthdays.json
    bak,        \* birthdays.json.bak
    lock,       \* FILE_LOCK: None, or Some(the task holding it)
    tasks,      \* the command handlers: where each is, and its last reply
    sched,      \* check_for_announcements: where it is, its local birthdays
    acked,      \* the pairs whose set_birthday was answered with success
    now,        \* the UTC date
    nadv,       \* times the date moved on
    ncmds,      \* commands issued
    announces,  \* the entries the sweeps found due, each with the channel
                \* its message was posted to, if any; a bag
    calc        \* a function of the date arithmetic applied on its own: the
                \* function, its arguments, its result once it has returned

vars ==
    <<file, bak, lock, tasks, sched, acked, now, nadv, ncmds, announces, calc>>

\* The UTC date of the first state.
StartDate == MkDate(2024, 6, 15)

NoInput ==
    [name |-> "", day |-> USize(0, 0), month |-> USize(0, 0), year |-> None,
     utc_offset |-> 0]

\* No function of the date arithmetic is being applied.
NoCall == [fn |-> "none", arg |-> <<>>, ret |-> <<>>]

IdleTask ==
    [pc |-> "idle", op |-> "none", user |-> "", guild |-> "", a |-> NoInput,
     chan |-> "", snap |-> EmptyList, res |-> ""]

\* A store an earlier run left behind: one birthday on 15.6. and a channel.
SeedList ==
    [entries |-> << MkEntry("u1", "g1", "n1", MkDate(PlaceholderYear, 6, 15), 0) >>,
     server_channels |-> [g \in Guilds |-> IF g = "g1" THEN Some("c1") ELSE None]]

\* The same store, with a birthday of a guild that has no channel.
SeedList2 ==
    [SeedList EXCEPT !.entries =
        Append(@, MkEntry("u1", "g2", "n2", MkDate(1990, 6, 16), 24))]

\* What the process may find on disk when it starts.
InitFiles ==
    { MkFile("missing"), MkFile("nonutf8"), MkFile("corrupt"),
      Serialize(SeedList) }

InitWith(files) ==
    /\ file \in files
    /\ bak = MkFile("missing")
    /\ lock = None
    /\ tasks = [t \in Tasks |-> IdleTask]
    /\ sched = [pc |-> "read", snap |-> EmptyList, i |-> 0, today |-> None]
    /\ acked = {}
    /\ now = StartDate
    /\ nadv = 0
    /\ ncmds = 0
    /\ announces = EmptyBag
    /\ calc = NoCall

Init == InitWith(InitFiles)

\* ------------------------------------------------------------ file writes

\* File::create inside std::fs::write: the file exists and is empty.
Truncated == MkFile("truncated")

RECURSIVE SumOver(_, _)
\* The sum of f[x] over the set S.
SumOver(f, S) ==
    IF S = {} THEN 0
    ELSE LET x == CHOOSE y \in S : TRUE IN f[x] + SumOver(f, S \ {x})

\* The length of the text to_string_pretty gives, as far as lists differ in
\* it: ids and names are taken to be equally long, a date is ten characters
\* in quotes, null is four, an offset of two digits is one longer.
DocSize(list) ==
    LET entry == [i \in Idx(list) |->
                    100 + (IF list.entries[i].last_announcement = None
                           THEN 4 ELSE 12)
                        + (IF list.entries[i].utc_offset \in 0 .. 9
                           THEN 1 ELSE 2)]
        chan == [g \in Guilds |->
                    IF list.server_channels[g] = None THEN 0 ELSE 20]
    IN  40 + SumOver(entry, Idx(list)) + SumOver(chan, Guilds)

\* write_all of a document from offset 0.  Onto the empty file it leaves the
\* document; onto a document another writer put there since the file was
\* cut it leaves the document too, unless that one is longer: then its tail
\* stays behind the document written.
Written(f, list) ==
    IF f.kind = "doc" /\ DocSize(f.list) > DocSize(list)
    THEN MkFile("torn")
    ELSE Serialize(list)

\* ---------------------------------------------------------------- commands

\* A command is run by the first handler that is free.
Free(t) ==
    /\ tasks[t].pc = "idle"
    /\ \A o \in Tasks : o < t => tasks[o].pc # "idle"
    /\ ncmds < MaxCmds

\* A handler that has answered: only the answer is kept.
Answered(res) == [IdleTask EXCEPT !.res = res]

\* set_birthday without the date check it starts with.
StartUpsertNoCheck(t, u, g, a) ==
    /\ Free(t)
    /\ ncmds' = ncmds + 1
    /\ tasks' = [tasks EXCEPT ![t] =
            [IdleTask EXCEPT !.pc = "read", !.op = "upsert", !.user = u,
                             !.guild = g, !.a = a]]
    /\ UNCHANGED <<calc, file, bak, lock, sched, acked, now, nadv, announces>>

\* set_birthday: the date check it starts with; an invalid date is answered
\* at once, a valid one goes on to append_birthday.
StartUpsert(t, u, g, a) ==
    /\ Free(t)
    /\ ncmds' = ncmds + 1
    /\ IF args_to_date(a.day, a.month, a.year) = None
       THEN tasks' = [tasks EXCEPT ![t] = Answered("invalid")]
       ELSE tasks' = [tasks EXCEPT ![t] =
                [IdleTask EXCEPT !.pc = "read", !.op = "upsert", !.user = u,
                                 !.guild = g, !.a = a]]
    /\ UNCHANGED <<calc, file, bak, lock, sched, acked, now, nadv, announces>>

\* set_announcement_channel is called.
StartSetChannel(t, g, c) ==
    /\ Free(t)
    /\ ncmds' = ncmds + 1
    /\ tasks' = [tasks EXCEPT ![t] =
            [IdleTask EXCEPT !.pc = "read", !.op = "set_channel", !.guild = g,
                             !.chan = c]]
    /\ UNCHANGED <<calc, file, bak, lock, sched, acked, now, nadv, announces>>

\* get_birthday or time_left is called.
StartLookup(t, u, g) ==
    /\ Free(t)
    /\ ncmds' = ncmds + 1
    /\ tasks' = [tasks EXCEPT ![t] =
            [IdleTask EXCEPT !.pc = "read", !.op = "lookup", !.user = u,
                             !.guild = g]]
    /\ UNCHANGED <<calc, file, bak, lock, sched, acked, now, nadv, announces>>

\* What a command does with the list it read, up to its write or its reply.
AfterRead(tk, list) ==
    CASE tk.op = "upsert" ->
            IF args_to_date(tk.a.day, tk.a.month, tk.a.year) = None
            THEN Answered("err")
            ELSE [tk EXCEPT !.pc = "write",
                            !.snap = Upsert(list, tk.user, tk.guild, tk.a)]
      [] tk.op = "set_channel" ->
            [tk EXCEPT !.pc = "write",
                       !.snap = SetChannel(list, tk.guild, tk.chan)]
      [] OTHER ->
            LET entry == Find(list, tk.user, tk.guild)
            IN  Answered(IF entry = None THEN "absent"
                         ELSE IF next_birthday(Get(entry).date, now) = None
                              THEN "panic" ELSE "found")

\* read_from_file in a command, the text read: the lock is taken, the file
\* read and parsed, the lock dropped.
CmdRead(t) ==
    /\ tasks[t].pc = "read"
    /\ lock = None
    /\ ~ReadFails(file)
    /\ tasks' = [tasks EXCEPT ![t] = AfterRead(@, Deserialize(file))]
    /\ UNCHANGED <<calc, file, bak, lock, sched, acked, now, nadv, ncmds, announces>>

\* read_from_file in a command, read_to_string failing: the file is copied
\* to the backup path and the task panics.
CmdReadPanic(t) ==
    /\ tasks[t].pc = "read"
    /\ lock = None
    /\ ReadFails(file)
    /\ bak' = CopyToBackup(file, bak)
    /\ tasks' = [tasks EXCEPT ![t] = Answered("panic")]
    /\ UNCHANGED <<calc, file, lock, sched, acked, now, nadv, ncmds, announces>>

\* write_to_file: the lock is taken and std::fs::write creates the file.
WriteBegin(t) ==
    /\ tasks[t].pc = "write"
    /\ lock = None
    /\ lock' = Some(t)
    /\ file' = Truncated
    /\ tasks' = [tasks EXCEPT ![t] = [@ EXCEPT !.pc = "writing"]]
    /\ UNCHANGED <<calc, bak, sched, acked, now, nadv, ncmds, announces>>

\* write_to_file: the document is written, the lock dropped, Ok returned.
WriteEnd(t) ==
    /\ tasks[t].pc = "writing"
    /\ file' = Written(file, tasks[t].snap)
    /\ lock' = None
    /\ tasks' = [tasks EXCEPT ![t] = Answered("ok")]
    /\ acked' = IF tasks[t].op = "upsert"
                THEN acked \cup {<<tasks[t].user, tasks[t].guild>>}
                ELSE acked
    /\ UNCHANGED <<calc, bak, sched, now, nadv, ncmds, announces>>

\* write_to_file returning the error with its guard not dropped.
WriteFailKeepsLock(t) ==
    /\ \/ tasks[t].pc = "write" /\ lock = None
       \/ tasks[t].pc = "writing"
    /\ lock' = Some(t)
    /\ tasks' = [tasks EXCEPT ![t] = Answered("err")]
    /\ UNCHANGED <<calc, file, bak, sched, acked, now, nadv, ncmds, announces>>

\* write_to_file: std::fs::write fails, opening the file or writing it; the
\* file stays as it is and the command returns the error.
WriteFail(t) ==
    /\ \/ tasks[t].pc = "write" /\ lock = None
       \/ tasks[t].pc = "writing"
    /\ lock' = None
    /\ tasks' = [tasks EXCEPT ![t] = Answered("err")]
    /\ UNCHANGED <<calc, file, bak, sched, acked, now, nadv, ncmds, announces>>

\* --------------------------------------------------------------- scheduler

\* Due with the stored date where the date moved by the offset belongs.
DueIgnoresOffset(e, today) ==
    /\ e.date.month = today.month
    /\ e.date.day = today.day
    /\ IF e.last_announcement = None THEN TRUE
       ELSE Get(e.last_announcement).year # today.year

\* Due without its test of the year of last_announcement.
DueEveryMatch(e, today) ==
    LET offset_entry == DateMinusHours(e.date, e.utc_offset)
    IN  /\ offset_entry.month = today.month
        /\ offset_entry.day = today.day

\* The sweep's test of one entry: the date moved back by the entry's offset
\* falls on today's month and day, and the entry was not announced in
\* today's year.
Due(e, today) ==
    LET offset_entry == DateMinusHours(e.date, e.utc_offset)
    IN  /\ offset_entry.month = today.month
        /\ offset_entry.day = today.day
        /\ IF e.last_announcement = None THEN TRUE
           ELSE Get(e.last_announcement).year # today.year

\* A due entry as the sweep treats it: c is the channel channel.say posts the
\* message to, None when the guild has none and nothing is posted.
Effect(e, c, today) ==
    [user_id |-> e.user_id, guild_id |-> e.guild_id, name |-> e.name,
     channel |-> c, date |-> today]

\* The mark set only where the message was posted: inside the if let.
MarkIfChannel(list, i, today) ==
    IF list.server_channels[list.entries[i].guild_id] = None
    THEN list
    ELSE [list EXCEPT !.entries[i].last_announcement = Some(today)]

\* entry.last_announcement = Some(today), on the sweep's own list.
Mark(list, i, today) ==
    [list EXCEPT !.entries[i].last_announcement = Some(today)]

SchedEntry == sched.snap.entries[sched.i]

InLoop == sched.pc = "eval" /\ sched.i <= Len(sched.snap.entries)

AtWriteBack == sched.pc = "eval" /\ sched.i > Len(sched.snap.entries)

\* The sweep's read_from_file, the text read.
SweepRead ==
    /\ sched.pc = "read"
    /\ lock = None
    /\ ~ReadFails(file)
    /\ sched' = [sched EXCEPT !.pc = "lock", !.snap = Deserialize(file)]
    /\ UNCHANGED <<calc, file, bak, lock, tasks, acked, now, nadv, ncmds, announces>>

\* The sweep's read_from_file panics: the scheduler task is gone.
SweepReadPanic ==
    /\ sched.pc = "read"
    /\ lock = None
    /\ ReadFails(file)
    /\ bak' = CopyToBackup(file, bak)
    /\ sched' = [sched EXCEPT !.pc = "dead"]
    /\ UNCHANGED <<calc, file, lock, tasks, acked, now, nadv, ncmds, announces>>

\* let _ = FILE_LOCK.lock().await: the lock is waited for, taken and dropped
\* in the same statement; then today is read.
SweepLock ==
    /\ sched.pc = "lock"
    /\ lock = None
    /\ sched' = [sched EXCEPT !.pc = "eval", !.i = 1, !.today = Some(now)]
    /\ UNCHANGED <<calc, file, bak, lock, tasks, acked, now, nadv, ncmds, announces>>

\* An entry that is not due is passed over.
SweepSkip ==
    /\ InLoop
    /\ ~Due(SchedEntry, Get(sched.today))
    /\ sched' = [sched EXCEPT !.i = @ + 1]
    /\ UNCHANGED <<calc, file, bak, lock, tasks, acked, now, nadv, ncmds, announces>>

\* A due entry: the message is posted when its guild has a channel, and the
\* entry is marked announced today either way.
SweepAnnounce ==
    /\ InLoop
    /\ Due(SchedEntry, Get(sched.today))
    /\ announces' = announces (+)
          SetToBag({Effect(SchedEntry,
                           sched.snap.server_channels[SchedEntry.guild_id],
                           Get(sched.today))})
    /\ sched' = [sched EXCEPT !.snap = Mark(@, sched.i, Get(sched.today)),
                              !.i = @ + 1]
    /\ UNCHANGED <<calc, file, bak, lock, tasks, acked, now, nadv, ncmds>>

\* channel.say fails and its unwrap panics: the scheduler task is gone.
SweepPostFail ==
    /\ InLoop
    /\ Due(SchedEntry, Get(sched.today))
    /\ sched.snap.server_channels[SchedEntry.guild_id] # None
    /\ sched' = [sched EXCEPT !.pc = "dead", !.snap = EmptyList, !.i = 0,
                              !.today = None]
    /\ UNCHANGED <<calc, file, bak, lock, tasks, acked, now, nadv, ncmds, announces>>

\* The sweep's std::fs::write creates the file; no lock is held.
SweepWriteBegin ==
    /\ AtWriteBack
    /\ file' = Truncated
    /\ sched' = [sched EXCEPT !.pc = "writing"]
    /\ UNCHANGED <<calc, bak, lock, tasks, acked, now, nadv, ncmds, announces>>

\* The sweep's std::fs::write writes its list; the task goes to sleep.
SweepWriteEnd ==
    /\ sched.pc = "writing"
    /\ file' = Written(file, sched.snap)
    /\ sched' = [sched EXCEPT !.pc = "sleep", !.snap = EmptyList, !.i = 0,
                              !.today = None]
    /\ UNCHANGED <<calc, bak, lock, tasks, acked, now, nadv, ncmds, announces>>

\* The sweep's std::fs::write fails, opening the file or writing it, and its
\* unwrap panics: the scheduler task is gone.
SweepWriteFail ==
    /\ AtWriteBack \/ sched.pc = "writing"
    /\ sched' = [sched EXCEPT !.pc = "dead", !.snap = EmptyList, !.i = 0,
                              !.today = None]
    /\ UNCHANGED <<calc, file, bak, lock, tasks, acked, now, nadv, ncmds, announces>>

\* tokio::time::sleep(CHECK_TIME) is over: the loop starts again.
SweepWake ==
    /\ sched.pc = "sleep"
    /\ sched' = [sched EXCEPT !.pc = "read"]
    /\ UNCHANGED <<calc, file, bak, lock, tasks, acked, now, nadv, ncmds, announces>>

\* ------------------------------------------------------------------- clock

\* The dates the clock may show next: tomorrow, or the same day a year on.
LaterDates(d) ==
    {SuccDay(d)} \cup from_ymd_opt(d.year + 1, d.month, d.day)

\* Utc::now() moves on.
AdvanceClock ==
    /\ nadv < MaxAdvance
    /\ nadv' = nadv + 1
    /\ now' \in LaterDates(now)
    /\ UNCHANGED <<calc, file, bak, lock, tasks, sched, acked, ncmds, announces>>

\* ----------------------------------------------------------- specification

Command ==
    \E t \in Tasks :
        \/ \E p \in Pairs, a \in Inputs : StartUpsert(t, p[1], p[2], a)
        \/ \E g \in Guilds, c \in Channels : StartSetChannel(t, g, c)
        \/ \E p \in Pairs : StartLookup(t, p[1], p[2])
        \/ CmdRead(t)
        \/ CmdReadPanic(t)
        \/ WriteBegin(t)
        \/ WriteEnd(t)
        \/ WriteFail(t)

Sweep ==
    \/ SweepRead
    \/ SweepReadPanic
    \/ SweepLock
    \/ SweepSkip
    \/ SweepAnnounce
    \/ SweepPostFail
    \/ SweepWriteBegin
    \/ SweepWriteEnd
    \/ SweepWriteFail
    \/ SweepWake

Next == Command \/ Sweep \/ AdvanceClock

Spec == Init /\ [][Next]_vars

\* The scheduler alone, no command arriving: the file is one of InitFiles or
\* the two-birthday store.
InitSweep == InitWith(InitFiles \cup {Serialize(SeedList2)})

NextSweep == Sweep \/ AdvanceClock

SpecSweep == InitSweep /\ [][NextSweep]_vars

\* The two-birthday store after a sweep of an earlier year marked its first
\* entry.
SeedMarked == Mark(SeedList2, 1, MkDate(2023, 6, 15))

\* The commands alone, in any interleaving, the scheduler task not running.
InitCmds == InitWith(InitFiles \cup {Serialize(SeedMarked)})

\* set_birthday called with one of MoreInputs.
MoreUpsert ==
    \E t \in Tasks, p \in Pairs, a \in MoreInputs : StartUpsert(t, p[1], p[2], a)

NextCmds == Command \/ MoreUpsert

SpecCmds == InitCmds /\ [][NextCmds]_vars

\* The commands of one user in one guild: set_birthday with the date
\* 16.6.1990 and offset 24, set_announcement_channel and get_birthday.
CommandOfOne ==
    \E t \in Tasks :
        \/ \E a \in {x \in Inputs : x.utc_offset # 0} : StartUpsert(t, "u2", "g1", a)
        \/ StartSetChannel(t, "g1", "c1")
        \/ StartLookup(t, "u2", "g1")
        \/ CmdRead(t)
        \/ CmdReadPanic(t)
        \/ WriteBegin(t)
        \/ WriteEnd(t)
        \/ WriteFail(t)

\* Those commands and the scheduler on one day, every task that can take a
\* step taking one in the end: the runtime runs every task that is ready,
\* and FILE_LOCK hands itself to its waiters in the order they came.
NextLock == CommandOfOne \/ Sweep

Fairness ==
    /\ \A t \in Tasks :
          /\ WF_vars(CmdRead(t) \/ CmdReadPanic(t))
          /\ WF_vars(WriteBegin(t) \/ WriteFail(t))
          /\ WF_vars(WriteEnd(t) \/ WriteFail(t))
    /\ WF_vars(Sweep)

InitLock == InitWith({MkFile("missing"), Serialize(SeedList)})

SpecLock == InitLock /\ [][NextLock]_vars /\ Fairness

\* The same commands when no read and no write fails.
CommandNoFail ==
    \E t \in Tasks :
        \/ \E a \in Inputs : StartUpsert(t, "u2", "g1", a)
        \/ StartSetChannel(t, "g1", "c1")
        \/ StartLookup(t, "u2", "g1")
        \/ CmdRead(t)
        \/ WriteBegin(t)
        \/ WriteEnd(t)

\* The scheduler when no read, no post and no write fails.
SweepNoFail ==
    \/ SweepRead
    \/ SweepLock
    \/ SweepSkip
    \/ SweepAnnounce
    \/ SweepWriteBegin
    \/ SweepWriteEnd
    \/ SweepWake

\* One UTC day, the 15th of June 2024, on which the birthday of (u1, g1) in
\* the store falls; g1 has its channel. The commands are those of u2 and
\* set_announcement_channel(g1, c1): none of them is an upsert of (u1, g1)
\* and none changes the channel of g1. The scheduler wakes up again and
\* again, and every task that can take a step takes one in the end.
NextDay == CommandNoFail \/ SweepNoFail

FairDay ==
    /\ \A t \in Tasks :
          /\ WF_vars(CmdRead(t))
          /\ WF_vars(WriteBegin(t))
          /\ WF_vars(WriteEnd(t))
    /\ WF_vars(SweepNoFail)

InitDay == InitWith({Serialize(SeedList)})

SpecDay == InitDay /\ [][NextDay]_vars /\ FairDay

\* ----------------------------------------------- the date functions alone

\* The days, the months and the years args_to_date is applied to: small
\* numbers, and numbers at or above 2^32.
DayArgs == { USize(0, d) : d \in 0 .. MaxDayArg } \cup { USize(1, 15) }

MonthArgs == { USize(0, m) : m \in 0 .. MaxMonthArg } \cup { USize(1, 6) }

YearArgs ==
    {None} \cup { Some(USize(0, y)) : y \in {0, 1900, 2000, 2023, 2024, MaxI32} }
           \cup { Some(USize(1, 2024)) }

ArgsToDateCalls ==
    { [fn |-> "args_to_date",
       arg |-> [day |-> d, month |-> m, year |-> y], ret |-> <<>>] :
         d \in DayArgs, m \in MonthArgs, y \in YearArgs }

\* args_to_date is applied to its arguments and returns.
CallArgsToDate ==
    /\ calc.fn = "args_to_date"
    /\ calc.ret = <<>>
    /\ calc' = [calc EXCEPT !.ret =
            << args_to_date(calc.arg.day, calc.arg.month, calc.arg.year) >>]
    /\ UNCHANGED <<file, bak, lock, tasks, sched, acked, now, nadv, ncmds,
                   announces>>

\* The dates an entry may hold: every day of 2024.
StoredDates ==
    UNION { from_ymd_opt(PlaceholderYear, m, d) : m \in 1 .. 12, d \in 1 .. 31 }

\* The dates get_birthday may be called on.
Todays ==
    { MkDate(2024, 2, 28), MkDate(2024, 2, 29), MkDate(2024, 3, 1),
      MkDate(2024, 6, 15), MkDate(2024, 12, 31), MkDate(2025, 1, 1),
      MkDate(2025, 2, 28), MkDate(2025, 3, 1), MkDate(2027, 12, 31),
      MkDate(2028, 2, 29) }

NextBirthdayCalls ==
    { [fn |-> "next_birthday", arg |-> [date |-> d, today |-> t], ret |-> <<>>] :
         d \in StoredDates, t \in Todays }

\* get_birthday computes the next birthday of the entry it found.
CallNextBirthday ==
    /\ calc.fn = "next_birthday"
    /\ calc.ret = <<>>
    /\ calc' = [calc EXCEPT !.ret =
            << next_birthday(calc.arg.date, calc.arg.today) >>]
    /\ UNCHANGED <<file, bak, lock, tasks, sched, acked, now, nadv, ncmds,
                   announces>>

\* The dates and the offsets of the entries the shift is applied to.
ShiftDates ==
    { MkDate(2024, 1, 1), MkDate(2024, 3, 1), MkDate(2024, 6, 16),
      MkDate(2024, 12, 31), MkDate(2025, 3, 1) }

OffsetEntryCalls ==
    { [fn |-> "offset_entry", arg |-> [date |-> d, utc_offset |-> h],
       ret |-> <<>>] :
         d \in ShiftDates, h \in -MaxOffsetArg .. MaxOffsetArg }

\* The sweep computes offset_entry for an entry.
CallOffsetEntry ==
    /\ calc.fn = "offset_entry"
    /\ calc.ret = <<>>
    /\ calc' = [calc EXCEPT !.ret =
            << DateMinusHours(calc.arg.date, calc.arg.utc_offset) >>]
    /\ UNCHANGED <<file, bak, lock, tasks, sched, acked, now, nadv, ncmds,
                   announces>>

\* set_birthday's arguments for which time_left is asked afterwards: days
\* of June and the end of February, without a year and with one.
TimeLeftCalls ==
    { [fn |-> "time_left",
       arg |-> [day |-> USize(0, d[1]), month |-> USize(0, d[2]), year |-> y],
       ret |-> <<>>] :
         d \in { <<15, 6>>, <<16, 6>>, <<28, 2>>, <<29, 2>>, <<31, 12>> },
         y \in {None} \cup { Some(USize(0, n)) :
                                n \in {1941, 1990, 2000, 2023, 2024, 2025} } }

\* The date append_birthday stores for the arguments, when they are valid,
\* and then time_left on the entry that holds it.
CallTimeLeft ==
    /\ calc.fn = "time_left"
    /\ calc.ret = <<>>
    /\ LET date == args_to_date(calc.arg.day, calc.arg.month, calc.arg.year)
       IN  calc' = [calc EXCEPT !.ret =
               << IF date = None THEN "invalid" ELSE time_left(Get(date)) >>]
    /\ UNCHANGED <<file, bak, lock, tasks, sched, acked, now, nadv, ncmds,
                   announces>>

\* No command is being handled; the scheduler is not inside a sweep.
Quiet == \A t \in Tasks : tasks[t].pc = "idle"

SchedIdle == sched.pc \in {"read", "sleep", "dead"}

\* The commands on the two birthdays of the store: set_birthday for (u1, g1)
\* or (u1, g2) with a date that passes the check of line 134, a channel set
\* for the guild that has none, and a lookup.
CommandSeq ==
    \E t \in Tasks :
        \/ \E g \in Guilds :
              \E a \in {x \in Inputs : args_to_date(x.day, x.month, x.year) # None} :
                 StartUpsert(t, "u1", g, a)
        \/ StartSetChannel(t, "g2", "c1")
        \/ StartLookup(t, "u1", "g2")
        \/ CmdRead(t)
        \/ CmdReadPanic(t)
        \/ WriteBegin(t)
        \/ WriteEnd(t)
        \/ WriteFail(t)

\* The commands and the sweeps one after another: a command is called when
\* nothing else runs, and a sweep runs when no command is being handled.
NextSeq ==
    \/ CommandSeq /\ SchedIdle /\ (ncmds' # ncmds => Quiet)
    \/ Sweep /\ Quiet
    \/ AdvanceClock

SpecSeq == InitSweep /\ [][NextSeq]_vars

\* The date functions applied on their own, to every argument drawn.
CalcCalls ==
    ArgsToDateCalls \cup NextBirthdayCalls \cup OffsetEntryCalls
        \cup TimeLeftCalls

InitCalc ==
    /\ file = Serialize(SeedList)
    /\ bak = MkFile("missing")
    /\ lock = None
    /\ tasks = [t \in Tasks |-> IdleTask]
    /\ sched = [pc |-> "read", snap |-> EmptyList, i |-> 0, today |-> None]
    /\ acked = {}
    /\ now = StartDate
    /\ nadv = 0
    /\ ncmds = 0
    /\ announces = EmptyBag
    /\ calc \in CalcCalls

NextCalc ==
    \/ CallArgsToDate
    \/ CallNextBirthday
    \/ CallOffsetEntry
    \/ CallTimeLeft

SpecCalc == InitCalc /\ [][NextCalc]_vars

\* ------------------------------------------------------------- properties

\* The entries of a list that belong to the pair (u, g).
OfPair(list, u, g) ==
    { i \in Idx(list) : list.entries[i].user_id = u
                        /\ list.entries[i].guild_id = g }

HasPair(list, u, g) == OfPair(list, u, g) # {}

\* The entries of a list, as a set.
Entries(list) == { list.entries[i] : i \in Idx(list) }

\* An entry without its last_announcement.
Unmarked(e) == [e EXCEPT !.last_announcement = None]

\* The list a reader of the file gets.
Durable == Deserialize(file)

\* Steps: a command or the sweep returns from read_from_file with a list; a
\* command's write_to_file cuts the file; a command's write_to_file returns
\* Ok; the sweep's write-back cuts the file.
CmdReadStep(t) == tasks[t].pc = "read" /\ tasks'[t].pc # "read"
SweepReadStep == sched.pc = "read" /\ sched'.pc # "read"
ReadStep == SweepReadStep \/ \E t \in Tasks : CmdReadStep(t)
CmdCutStep(t) == tasks[t].pc = "write" /\ tasks'[t].pc = "writing"
CmdOkStep(t) == tasks[t].pc = "writing" /\ tasks'[t].res = "ok"
SweepCutStep == AtWriteBack /\ sched'.pc = "writing"

\* A std::fs::write has cut the file and not yet written it.
WriteInProgress ==
    sched.pc = "writing" \/ \E t \in Tasks : tasks[t].pc = "writing"

\* C1: no lost update between upserts.  When an upsert returns Ok, its own
\* record and the record of every other owner whose upsert has returned Ok
\* are in the durable store.
C1_BothUpsertsPersist ==
    [][\A t \in Tasks :
          CmdOkStep(t) /\ tasks[t].op = "upsert" =>
              \A p \in acked :
                  p[1] # tasks[t].user =>
                      /\ HasPair(Deserialize(file'), p[1], p[2])
                      /\ HasPair(Deserialize(file'), tasks[t].user,
                                 tasks[t].guild)]_vars

\* C2: a sweep is atomic with respect to the mutators.  The write-back of a
\* sweep replaces a document only by one that differs from it in
\* last_announcement markers alone (nothing a mutator wrote since the
\* sweep's read is overwritten); and a mutator's write keeps every marker
\* of the document it replaces, but for the pair it upserts.
C2_SweepAtomic ==
    [][/\ SweepCutStep /\ file.kind = "doc" =>
            /\ { Unmarked(e) : e \in Entries(file.list) }
                 = { Unmarked(e) : e \in Entries(sched.snap) }
            /\ file.list.server_channels = sched.snap.server_channels
       /\ \A t \in Tasks :
            CmdCutStep(t) /\ file.kind = "doc" =>
                \A e \in Entries(file.list) :
                    /\ e.last_announcement # None
                    /\ ~(tasks[t].op = "upsert" /\ e.user_id = tasks[t].user
                         /\ e.guild_id = tasks[t].guild)
                    => e \in Entries(tasks[t].snap)]_vars

\* The messages posted for the pair (u, g) in the UTC year y.
Posted(u, g, y) ==
    BagCardinality([e \in { x \in BagToSet(announces) :
                              /\ x.user_id = u /\ x.guild_id = g
                              /\ x.date.year = y /\ x.channel # None }
                    |-> announces[e]])

\* The times the pair (u, g) was found due in the UTC year y.
DueCount(u, g, y) ==
    BagCardinality([e \in { x \in BagToSet(announces) :
                              /\ x.user_id = u /\ x.guild_id = g
                              /\ x.date.year = y }
                    |-> announces[e]])

AnnouncedYears == { e.date.year : e \in BagToSet(announces) }

\* C3: at most one announcement per record per year.  For every pair and
\* every UTC year, at most one message has been posted.
C3_AtMostOncePerYear ==
    \A u \in Users, g \in Guilds, y \in AnnouncedYears : Posted(u, g, y) <= 1

\* The month and day on which the sweep finds an entry due.
EffectiveDay(e) == DateMinusHours(e.date, e.utc_offset)

OnItsDay(e, today) ==
    EffectiveDay(e).month = today.month /\ EffectiveDay(e).day = today.day

\* C4: sweep idempotency within a year, the scheduler running alone.  No
\* pair is found due twice in one UTC year, however many sweeps run; and at
\* the end of every sweep each entry whose month and day are today's is
\* marked announced today, so an entry marked in another year was due again.
C4_OncePerYearDueAgainNextYear ==
    /\ \A u \in Users, g \in Guilds, y \in AnnouncedYears :
           DueCount(u, g, y) <= 1
    /\ AtWriteBack =>
           \A e \in Entries(sched.snap) :
               OnItsDay(e, Get(sched.today)) =>
                   e.last_announcement = sched.today

\* C4, its case: a pair was found due in two different UTC years, and the
\* sweep now ending passed over an entry that the file already held marked
\* today.
C4_Witness ==
    /\ \E x, y \in BagToSet(announces) :
           /\ x.user_id = y.user_id /\ x.guild_id = y.guild_id
           /\ x.date.year # y.date.year
    /\ AtWriteBack
    /\ \E e \in Entries(sched.snap) :
           /\ e.last_announcement = sched.today
           /\ e \in Entries(Durable)
           /\ DueCount(e.user_id, e.guild_id, Get(sched.today).year) = 1

\* C5: corruption recovery.  A read of a file that exists and cannot be
\* deserialized leaves a backup that holds the file's bytes.
C5_CorruptFileBackedUp ==
    [][ReadStep /\ file.kind = "corrupt" => bak' = file]_vars

\* C6: readers never observe a store mid-write.  No read_from_file returns
\* while a write has cut the file and not yet written its document.
C6_NoReadMidWrite ==
    [][ReadStep /\ WriteInProgress => file.kind # "truncated"]_vars

\* C7: no failure stops the scheduler.  The scheduler task is never gone.
C7_SchedulerNeverStops == sched.pc # "dead"

\* C8: the store is created empty on first run.  While no durable file
\* exists, no store operation fails: no command and no sweep has panicked.
C8_FirstRunEmptyStore ==
    file.kind = "missing" =>
        /\ sched.pc # "dead"
        /\ \A t \in Tasks : tasks[t].res # "panic"

\* C9: one record per (owner, community) pair.  Every document in the file
\* holds at most one entry per pair; and when an upsert returns Ok the file
\* holds a document with exactly one entry for its pair, which carries the
\* upsert's name, date and offset and no last_announcement.
C9_OneRecordPerPair ==
    /\ [](file.kind = "doc" =>
            \A u \in Users, g \in Guilds :
                Cardinality(OfPair(file.list, u, g)) <= 1)
    /\ [][\A t \in Tasks :
            CmdOkStep(t) /\ tasks[t].op = "upsert" =>
                /\ file'.kind = "doc"
                /\ Cardinality(OfPair(file'.list, tasks[t].user,
                                      tasks[t].guild)) = 1
                /\ MkEntry(tasks[t].user, tasks[t].guild, tasks[t].a.name,
                           Get(args_to_date(tasks[t].a.day, tasks[t].a.month,
                                            tasks[t].a.year)),
                           tasks[t].a.utc_offset)
                     \in Entries(file'.list)]_vars

\* C9, its case: the upsert of a pair that had an entry has returned, and
\* the file holds one entry for the pair, with the new name.
C9_Witness ==
    /\ <<"u1", "g1">> \in acked
    /\ file.kind = "doc"
    /\ Cardinality(OfPair(file.list, "u1", "g1")) = 1
    /\ \E e \in Entries(file.list) :
           e.user_id = "u1" /\ e.guild_id = "g1" /\ e.name = "n2"
    /\ Len(file.list.entries) = 2

\* C10: upsert replacement is keyed on the pair.  The list an upsert writes
\* holds the entries of every other pair of the list it read, unchanged and
\* in their order, then its own entry; and the same channels.
C10_UpsertFrame ==
    [][\A t \in Tasks :
          CmdReadStep(t) /\ tasks[t].op = "upsert" /\ tasks'[t].pc = "write" =>
              LET read == Deserialize(file)
                  new == tasks'[t].snap
                  other(e) == e.user_id # tasks[t].user
                              \/ e.guild_id # tasks[t].guild
              IN  /\ SubSeq(new.entries, 1, Len(new.entries) - 1)
                       = SelectSeq(read.entries, other)
                  /\ ~other(new.entries[Len(new.entries)])
                  /\ new.server_channels = read.server_channels]_vars

\* C10, its case: an upsert for (u1, g1) has read a list that holds a marked
\* entry of u1 in g2 and a channel, and is about to write a list that holds
\* both entries.
C10_Witness ==
    \E t \in Tasks :
        /\ tasks[t].pc = "write"
        /\ tasks[t].op = "upsert"
        /\ tasks[t].user = "u1" /\ tasks[t].guild = "g1"
        /\ HasPair(tasks[t].snap, "u1", "g2")
        /\ HasPair(tasks[t].snap, "u1", "g1")
        /\ tasks[t].snap.server_channels["g1"] # None

SweepEntryStep == InLoop /\ sched'.pc = "eval" /\ sched'.i = sched.i + 1

\* The effects of a bag of due entries that were posted for the pair (u, g)
\* in the year y.
PostedIn(b, u, g, y) ==
    { x \in BagToSet(b) : /\ x.user_id = u /\ x.guild_id = g
                           /\ x.date.year = y /\ x.channel # None }

\* C12: due without target.  A sweep that finds an entry due whose guild has
\* no channel posts nothing for it and marks it announced today; and a pair
\* that a sweep found due without a channel gets no message in that UTC
\* year, whatever channel is set afterwards (the pair not upserted again).
C12_DueWithoutTarget ==
    /\ [][SweepEntryStep
            /\ OnItsDay(SchedEntry, Get(sched.today))
            /\ (\A d \in SchedEntry.last_announcement :
                    d.year # Get(sched.today).year)
            /\ sched.snap.server_channels[SchedEntry.guild_id] = None
            => /\ \A u \in Users, g \in Guilds, y \in AnnouncedYears :
                      PostedIn(announces', u, g, y) = PostedIn(announces, u, g, y)
               /\ sched'.snap.entries[sched.i].last_announcement = sched.today
               /\ sched'.snap.server_channels = sched.snap.server_channels]_vars
    /\ [](\A x \in BagToSet(announces) :
            x.channel = None /\ <<x.user_id, x.guild_id>> \notin acked
            => Posted(x.user_id, x.guild_id, x.date.year) = 0)

\* C12, its case: (u1, g2) was found due in 2024 while g2 had no channel;
\* a channel was set for g2 afterwards, and a sweep of 2024 that read the
\* channel has passed over the entry without a message.
C12_Witness ==
    /\ AtWriteBack
    /\ Get(sched.today).year = 2024
    /\ sched.snap.server_channels["g2"] # None
    /\ HasPair(sched.snap, "u1", "g2")
    /\ DueCount("u1", "g2", 2024) = 1
    /\ Posted("u1", "g2", 2024) = 0
    /\ <<"u1", "g2">> \notin acked

\* The marker of an entry is absent or of another year than today's.
NotAnnouncedIn(e, today) ==
    \A d \in e.last_announcement : d.year # today.year

Small(n) == n.hi = 0

\* The days of each month, February with its 29th.
MonthLength == <<31, 29, 31, 30, 31, 30, 31, 31, 30, 31, 30, 31>>

\* (day, month) is a day of the calendar.
ValidDayMonth(d, m) ==
    /\ Small(d) /\ Small(m)
    /\ m.lo \in 1 .. 12
    /\ d.lo >= 1 /\ d.lo <= MonthLength[m.lo]

\* args_to_date has returned.
ArgsToDateDone == calc.fn = "args_to_date" /\ calc.ret # <<>>

\* C14: args_to_date without a year succeeds for every valid (day, month)
\* and gives a date of that day and month; and for the 30th of February it
\* fails whatever the year, absent or given.
C14_MakeDate ==
    ArgsToDateDone =>
        /\ calc.arg.year = None /\ ValidDayMonth(calc.arg.day, calc.arg.month)
           => /\ calc.ret[1] # None
              /\ \A dt \in calc.ret[1] :
                     dt.month = calc.arg.month.lo /\ dt.day = calc.arg.day.lo
        /\ calc.arg.day = USize(0, 30) /\ calc.arg.month = USize(0, 2)
           => calc.ret[1] = None

\* C14, its case: args_to_date has returned the 29th of February for
\* (29, 2) without a year.
C14_Witness ==
    /\ ArgsToDateDone
    /\ calc.arg = [day |-> USize(0, 29), month |-> USize(0, 2), year |-> None]
    /\ calc.ret = << Some(MkDate(PlaceholderYear, 2, 29)) >>

\* The value of a usize lies in lo .. hi.
InRange(n, lo, hi) == Small(n) /\ n.lo >= lo /\ n.lo <= hi

\* C15: every day outside [1, 31] and every month outside [1, 12] is
\* rejected, whatever the value of the usize: args_to_date returns Err for
\* it, and set_birthday answers "Invalid date!" to it.
C15_RangeRejected ==
    /\ [](ArgsToDateDone
             /\ ~(InRange(calc.arg.day, 1, 31) /\ InRange(calc.arg.month, 1, 12))
          => calc.ret[1] = None)
    /\ [][\A t \in Tasks, p \in Pairs, a \in Inputs \cup MoreInputs :
            StartUpsert(t, p[1], p[2], a)
            /\ ~(InRange(a.day, 1, 31) /\ InRange(a.month, 1, 12))
            => tasks'[t] = Answered("invalid")]_vars

\* The first day on or after from that is the day (month, day) of a year in
\* which that day exists.
NearestOccurrence(month, day, from) ==
    LET hit(y) == /\ day <= (IF month = 2 /\ ~IsLeap(y)
                              THEN 28 ELSE MonthLength[month])
                  /\ ~DateLess(MkDate(y, month, day), from)
        y0 == CHOOSE y \in from.year .. from.year + 8 :
                  hit(y) /\ \A z \in from.year .. y - 1 : ~hit(z)
    IN  MkDate(y0, month, day)

\* C16: the next birthday get_birthday computes is, for every stored month
\* and day and every current date, the nearest day on or after the current
\* date with that month and day, the 29th of February being looked for in
\* the next leap year; the computation does not fail.
C16_NextOccurrence ==
    calc.fn = "next_birthday" /\ calc.ret # <<>> =>
        calc.ret[1] = Some(NearestOccurrence(calc.arg.date.month,
                                             calc.arg.date.day, calc.arg.today))

\* The UTC calendar date of the instant h hours before 00:00 of date.
InstantDay(date, h) ==
    ShiftDays(date, IF h <= 0 THEN (-h) \div 24 ELSE -((h + 23) \div 24))

\* C17: the effective day the sweep uses for an entry with date D and offset
\* h is the UTC date of the instant D 00:00 minus h hours: the day before D
\* for 0 < h < 24, D itself for -24 < h <= 0.
C17_EffectiveDay ==
    calc.fn = "offset_entry" /\ calc.ret # <<>> =>
        calc.ret[1] = InstantDay(calc.arg.date, calc.arg.utc_offset)

\* C18: the placeholder year is no meaningful value.  A birthday set with a
\* year, 2024 included, is treated by time_left as having one, and a
\* birthday set without a year as having none.
C18_PlaceholderNeverLeaks ==
    calc.fn = "time_left" /\ calc.ret # <<>> /\ calc.ret # <<"invalid">> =>
        (calc.ret[1] = "no_year" <=> calc.arg.year = None)

SeedPosts ==
    { e \in BagToSet(announces) :
        /\ e.user_id = "u1" /\ e.guild_id = "g1"
        /\ e.name = "n1" /\ e.channel = Some("c1") /\ e.date = now }

\* How many of them were posted.
SeedPosted ==
    IF SeedPosts = {} THEN 0 ELSE CopiesIn(CHOOSE e \in SeedPosts : TRUE, announces)

\* The birthday of (u1, g1) is in the file as it was stored, whatever its
\* marker, and g1 has its channel; or the file is being written.
SeedInStore ==
    \/ file = Truncated
    \/ /\ Durable.server_channels["g1"] = Some("c1")
       /\ \E i \in Idx(Durable) :
             [Durable.entries[i] EXCEPT !.last_announcement = None]
                = SeedList.entries[1]

\* C20: every due birthday is announced, and once. With no read, post or
\* write failing and the scheduler sweeping again and again through the day,
\* the birthday of (u1, g1), which falls on today, whose guild has its
\* channel, which was not announced this year and which no command changes,
\* gets exactly one message today, posted to the channel of g1 with the name
\* in the store: never a second one, and a first one in the end unless the
\* entry left the store.
C20_DueAnnouncedOnce ==
    /\ [](SeedPosted <= 1)
    /\ <>(~SeedInStore \/ SeedPosted >= 1)

====
